---- MODULE Spec2Model ----
(***************************************************************************)
(* Flow-layout and pagination engine of the organisation-chart generator:  *)
(* the hierarchy model (src/src/processor.py), the flow cursor, the block  *)
(* placement of one Partner and the border resolver (src/src/writer.py).   *)
(***************************************************************************)
EXTENDS Integers, Sequences, FiniteSets, TLC

(***************************************************************************)
(* Bounds of the model.                                                    *)
(***************************************************************************)
\* The trees laid out have at most this many rows in all (sum of the
\* Partners' row-heights).
MaxTotalRows == 10
\* columns_per_page ranges over 1..MaxColumns.
MaxColumns == 2
\* max_rows_per_column ranges over 1..MaxCapacity.
MaxCapacity == 8

(***************************************************************************)
(* Program constants of writer.py.                                         *)
(***************************************************************************)
LEFT_MARGIN == 1
EXCEL_COLS_PER_VISUAL == 7
GAP_COLS == 1
STRIDE == EXCEL_COLS_PER_VISUAL + GAP_COLS
COL_PARTNER == 0
COL_CLIENT == 1
COL_PROJECT == 2
COL_NAME == 3
COL_DEPT == 4
COL_EMPTY == 5
COL_GRADE == 6
HEADER_ROWS == 2
CONTENT_START_ROW == HEADER_ROWS + 1
PARTNER_GAP_ROWS == 1
PARTNER_HEADER_ROWS == 2

\* openpyxl Side styles; Side() is a side with no stroke.
MEDIUM == "medium"
THIN == "thin"
HAIR == "hair"
NOSIDE == "none"

Max(a, b) == IF a >= b THEN a ELSE b

RECURSIVE SumSeq(_)
SumSeq(s) == IF s = <<>> THEN 0 ELSE Head(s) + SumSeq(Tail(s))

(***************************************************************************)
(* Hierarchy model (processor.py).  A Member is a record; is_bp members    *)
(* carry an empty grade, as _build_clients makes them.                     *)
(***************************************************************************)
OwnMember == [is_bp |-> FALSE, grade |-> "GM"]
BpMember == [is_bp |-> TRUE, grade |-> ""]

\* Project.count
ProjectCount(project) == Len(project.members)

\* Project.row_height
ProjectRowHeight(project) == 1 + ProjectCount(project)

\* Client.count
ClientCount(client) ==
    SumSeq([i \in 1..Len(client.projects) |-> ProjectCount(client.projects[i])])

\* Faulty variant of Client.row_height: the spacer row under the name is not counted.
ClientRowHeightNoSpacer(client) ==
    LET project_rows ==
          SumSeq([i \in 1..Len(client.projects) |->
                     ProjectRowHeight(client.projects[i])])
    IN 1 + project_rows

\* Client.row_height
ClientRowHeight(client) ==
    LET project_rows ==
          SumSeq([i \in 1..Len(client.projects) |->
                     ProjectRowHeight(client.projects[i])])
    IN 1 + 1 + project_rows

\* Partner.count
PartnerCount(partner) ==
    SumSeq([i \in 1..Len(partner.clients) |-> ClientCount(partner.clients[i])])

\* Partner.row_height
PartnerRowHeight(partner) ==
    LET client_rows ==
          SumSeq([i \in 1..Len(partner.clients) |->
                     ClientRowHeight(partner.clients[i])])
    IN 1 + 1 + client_rows

(***************************************************************************)
(* The input trees: every list of Divisions whose Partners' row-heights    *)
(* add up to at most MaxTotalRows.  Members are listed own staff first,    *)
(* then BP staff, the order _sort_members leaves them in.                  *)
(***************************************************************************)
MembersOf(n) == [i \in 1..n |-> IF i = 1 THEN OwnMember ELSE BpMember]

ProjectsWithin(b) == {[members |-> MembersOf(n)] : n \in 0..(b - 1)}

RECURSIVE ProjectSeqsWithin(_)
ProjectSeqsWithin(b) ==
    {<<>>} \cup
    UNION {{<<p>> \o s : s \in ProjectSeqsWithin(b - ProjectRowHeight(p))} :
           p \in ProjectsWithin(b)}

ClientsWithin(b) == {[projects |-> ps] : ps \in ProjectSeqsWithin(b - 2)}

RECURSIVE ClientSeqsWithin(_)
ClientSeqsWithin(b) ==
    {<<>>} \cup
    (IF b < 2 THEN {}
     ELSE UNION {{<<c>> \o s : s \in ClientSeqsWithin(b - ClientRowHeight(c))} :
                 c \in ClientsWithin(b)})

PartnersWithin(b) == {[clients |-> cs] : cs \in ClientSeqsWithin(b - 2)}

RECURSIVE PartnerSeqsWithin(_)
PartnerSeqsWithin(b) ==
    {<<>>} \cup
    (IF b < 2 THEN {}
     ELSE UNION {{<<p>> \o s : s \in PartnerSeqsWithin(b - PartnerRowHeight(p))} :
                 p \in PartnersWithin(b)})

\* A list of two Divisions (either may be empty) holding the Partners ps.
SplitDivisions(ps, k) ==
    << [key |-> "A", partners |-> SubSeq(ps, 1, k)],
       [key |-> "B", partners |-> SubSeq(ps, k + 1, Len(ps))] >>

\* The lists of no, one or two Divisions.
Trees ==
    {<<>>} \cup
    UNION {{<<[key |-> "A", partners |-> ps]>>} \cup
           {SplitDivisions(ps, k) : k \in 0..Len(ps)} :
           ps \in PartnerSeqsWithin(MaxTotalRows)}

\* counts, the people counts of a list's elements, are in non-increasing order
\* (list.sort(key=count, reverse=True))
CountDescending(counts) ==
    \A i \in 1..(Len(counts) - 1) : counts[i] >= counts[i + 1]

\* The shape of every tree process returns: a group is made per record, so no
\* container is empty, and each level is sorted by people count, descending.
BuiltByProcess(divs) ==
    \A d \in 1..Len(divs) :
       /\ Len(divs[d].partners) >= 1
       /\ CountDescending([i \in 1..Len(divs[d].partners) |->
                             PartnerCount(divs[d].partners[i])])
       /\ \A p \in 1..Len(divs[d].partners) :
            LET partner == divs[d].partners[p]
            IN /\ Len(partner.clients) >= 1
               /\ CountDescending([i \in 1..Len(partner.clients) |->
                                     ClientCount(partner.clients[i])])
               /\ \A c \in 1..Len(partner.clients) :
                    LET client == partner.clients[c]
                    IN /\ Len(client.projects) >= 1
                       /\ CountDescending([i \in 1..Len(client.projects) |->
                                             ProjectCount(client.projects[i])])
                       /\ \A j \in 1..Len(client.projects) :
                            Len(client.projects[j].members) >= 1

(***************************************************************************)
(* Flow cursor (class FlowLayout).  `self` is the record of its fields.    *)
(***************************************************************************)
\* FlowLayout.__init__ with config.LAYOUT's columns_per_page, max_rows_per_column
FlowLayoutInit(columns_per_page, max_rows_per_column) ==
    [cols_per_page |-> columns_per_page,
     max_rows |-> max_rows_per_column,
     visual_col |-> 0,
     page |-> 0,
     row |-> CONTENT_START_ROW,
     page_start_row |-> CONTENT_START_ROW,
     page_max_row |-> CONTENT_START_ROW,
     page_break_rows |-> <<>>]

\* Faulty variant of _col_base: the visual columns are set closer than they are wide.
_col_base_narrow(self) == self.visual_col * (STRIDE - 2) + 1 + LEFT_MARGIN

_col_base(self) == self.visual_col * STRIDE + 1 + LEFT_MARGIN

_col(self, offset) == _col_base(self) + offset

\* Faulty variant of can_fit: the last row of the column is not counted as free.
can_fit_strict(self, height) ==
    (self.row + height - 1) < (self.page_start_row + self.max_rows - 1)

can_fit(self, height) ==
    (self.row + height - 1) <= (self.page_start_row + self.max_rows - 1)

\* Faulty variant of next_column: the high-water mark is the row of the column left,
\* not the highest row of the page.
next_column_nomax(self) ==
    LET moved == [self EXCEPT !.page_max_row = self.row,
                              !.visual_col = self.visual_col + 1,
                              !.row = self.page_start_row]
        break_row == moved.page_max_row
    IN IF moved.visual_col >= moved.cols_per_page
       THEN [moved EXCEPT !.page = moved.page + 1,
                          !.visual_col = 0,
                          !.page_break_rows = Append(moved.page_break_rows, break_row),
                          !.page_start_row = break_row + HEADER_ROWS,
                          !.row = break_row + HEADER_ROWS,
                          !.page_max_row = break_row + HEADER_ROWS]
       ELSE moved

\* Faulty variant of next_column: the page is left one column too late.
next_column_late(self) ==
    LET moved == [self EXCEPT !.page_max_row = Max(self.page_max_row, self.row),
                              !.visual_col = self.visual_col + 1,
                              !.row = self.page_start_row]
        break_row == moved.page_max_row
    IN IF moved.visual_col > moved.cols_per_page
       THEN [moved EXCEPT !.page = moved.page + 1,
                          !.visual_col = 0,
                          !.page_break_rows = Append(moved.page_break_rows, break_row),
                          !.page_start_row = break_row + HEADER_ROWS,
                          !.row = break_row + HEADER_ROWS,
                          !.page_max_row = break_row + HEADER_ROWS]
       ELSE moved

next_column(self) ==
    LET moved == [self EXCEPT !.page_max_row = Max(self.page_max_row, self.row),
                              !.visual_col = self.visual_col + 1,
                              !.row = self.page_start_row]
        break_row == moved.page_max_row
    IN IF moved.visual_col >= moved.cols_per_page
       THEN [moved EXCEPT !.page = moved.page + 1,
                          !.visual_col = 0,
                          !.page_break_rows = Append(moved.page_break_rows, break_row),
                          !.page_start_row = break_row + HEADER_ROWS,
                          !.row = break_row + HEADER_ROWS,
                          !.page_max_row = break_row + HEADER_ROWS]
       ELSE moved

\* Faulty variant of ensure_fit: it advances again when the fresh column is too short too.
ensure_fit_again(self, height) ==
    IF ~can_fit(self, height)
    THEN IF ~can_fit(next_column(self), height)
         THEN next_column(next_column(self)) ELSE next_column(self)
    ELSE self

ensure_fit(self, height) ==
    IF ~can_fit(self, height) THEN next_column(self) ELSE self

(***************************************************************************)
(* The worksheet, as write_partner_clients sees it.  A machine state m is  *)
(* [flow, seg, cells, merges]: the cursor, the open segment's bookkeeping  *)
(* dict, the cells given a value and the merged ranges.  A cell is written *)
(* [row, column, value] and remembers the page and visual column the       *)
(* cursor was in; a value is <<kind, identity...>>, the identity standing  *)
(* for the name or count printed.                                          *)
(***************************************************************************)
\* seg = {} (write_partner_clients line 149)
EmptySeg ==
    [start_row |-> 0, col_base |-> 0, partner_row |-> 0,
     member_ranges |-> <<>>, border_starts |-> <<>>, merged_rows |-> {},
     client_vline_ranges |-> <<>>, project_vline_ranges |-> <<>>,
     first_client |-> TRUE]

\* d[k] = v on a dict
Put(d, k, v) == [x \in (DOMAIN d) \cup {k} |-> IF x = k THEN v ELSE d[x]]

\* ws.cell(row=, column=, value=)
Cell(self, r, offset, v) ==
    [row |-> r, column |-> _col(self, offset), value |-> v,
     page |-> self.page, visual_col |-> self.visual_col]

\* ws.merge_cells(start_row=, start_column=, end_row=, end_column=)
Merge(self, r1, off1, r2, off2) ==
    [start_row |-> r1, start_column |-> _col(self, off1),
     end_row |-> r2, end_column |-> _col(self, off2)]

\* Faulty variant of _begin_segment: the Partner header is written in the Partner's
\* first segment only; a later segment starts with two blank rows.
_begin_segment_once(m, partner, division_key, pid) ==
    LET self == m.flow
        pr == self.row
        after == self.row + PARTNER_HEADER_ROWS
    IN [flow |-> [self EXCEPT !.row = after],
        seg |-> [start_row |-> pr,
                 col_base |-> _col_base(self),
                 partner_row |-> pr,
                 member_ranges |-> <<>>,
                 border_starts |-> Put(<<>>, after, COL_CLIENT),
                 merged_rows |-> {pr},
                 client_vline_ranges |-> <<>>,
                 project_vline_ranges |-> <<>>,
                 first_client |-> TRUE],
        cells |-> IF m.seg = EmptySeg
                  THEN m.cells \cup
                       {Cell(self, pr, COL_PARTNER, <<"partner", pid>>),
                        Cell(self, pr, COL_GRADE, <<"sales", pid, division_key>>),
                        Cell(self, pr + 1, COL_GRADE,
                             <<"partner_count", pid, PartnerCount(partner)>>)}
                  ELSE m.cells,
        merges |-> m.merges \cup
                   {Merge(self, pr, COL_PARTNER, pr + 1, COL_PARTNER + 5)}]

\* _begin_segment: a fresh seg, the Partner header cells, row += 2
_begin_segment(m, partner, division_key, pid) ==
    LET self == m.flow
        pr == self.row
        after == self.row + PARTNER_HEADER_ROWS
    IN [flow |-> [self EXCEPT !.row = after],
        seg |-> [start_row |-> pr,
                 col_base |-> _col_base(self),
                 partner_row |-> pr,
                 member_ranges |-> <<>>,
                 border_starts |-> Put(<<>>, after, COL_CLIENT),
                 merged_rows |-> {pr},
                 client_vline_ranges |-> <<>>,
                 project_vline_ranges |-> <<>>,
                 first_client |-> TRUE],
        cells |-> m.cells \cup
                  {Cell(self, pr, COL_PARTNER, <<"partner", pid>>),
                   Cell(self, pr, COL_GRADE, <<"sales", pid, division_key>>),
                   Cell(self, pr + 1, COL_GRADE,
                        <<"partner_count", pid, PartnerCount(partner)>>)},
        merges |-> m.merges \cup
                   {Merge(self, pr, COL_PARTNER, pr + 1, COL_PARTNER + 5)}]

\* Faulty variant of WriteMembers: every member row is admitted on its own, so a
\* column that fills up in the middle of a Client is left for the next one.
RECURSIVE WriteMembersWrapping(_, _, _, _)
WriteMembersWrapping(m, path, members, mi) ==
    IF mi > Len(members) THEN m
    ELSE LET self == ensure_fit(m.flow, 1)
             r == self.row
             id == Append(path, mi)
         IN WriteMembersWrapping(
                [m EXCEPT !.cells = m.cells \cup
                                    {Cell(self, r, COL_NAME, <<"name">> \o id),
                                     Cell(self, r, COL_DEPT, <<"dept">> \o id)},
                          !.flow = [self EXCEPT !.row = r + 1]],
                path, members, mi + 1)

\* the member loop of write_partner_clients (lines 290-307), from member mi on
RECURSIVE WriteMembers(_, _, _, _)
WriteMembers(m, path, members, mi) ==
    IF mi > Len(members) THEN m
    ELSE LET self == m.flow
             r == self.row
             member == members[mi]
             id == Append(path, mi)
             grade_cell ==
                 IF ~member.is_bp /\ member.grade # ""
                 THEN {Cell(self, r, COL_GRADE, <<"grade">> \o id)}
                 ELSE {}
         IN WriteMembers(
                [m EXCEPT !.cells = m.cells \cup
                                    {Cell(self, r, COL_NAME, <<"name">> \o id),
                                     Cell(self, r, COL_DEPT, <<"dept">> \o id)} \cup
                                    grade_cell,
                          !.flow.row = r + 1],
                path, members, mi + 1)

\* seg["border_starts"][mr] = COL_NAME for mr in range(first + 1, last + 1)
RECURSIVE PutRange(_, _, _, _)
PutRange(d, first, last, v) ==
    IF first > last THEN d ELSE PutRange(Put(d, first, v), first + 1, last, v)

\* one iteration of the project loop (lines 260-318) for project number pi (from 1)
WriteProject(m, path, project, pi) ==
    LET self == m.flow
        proj_row == self.row
        id == Append(path, pi)
        starts0 == IF pi > 1 THEN Put(m.seg.border_starts, proj_row, COL_PROJECT)
                   ELSE m.seg.border_starts
        starts1 == Put(starts0, proj_row + 1, COL_NAME)
        first_member_row == proj_row + 1
        m1 == [m EXCEPT !.cells = m.cells \cup
                                  {Cell(self, proj_row, COL_PROJECT, <<"project">> \o id),
                                   Cell(self, proj_row, COL_GRADE,
                                        <<"project_count">> \o id \o
                                        <<ProjectCount(project)>>)},
                        !.merges = m.merges \cup
                                   {Merge(self, proj_row, COL_PROJECT, proj_row, COL_EMPTY)},
                        !.flow.row = proj_row + 1,
                        !.seg.border_starts = starts1]
        m2 == WriteMembers(m1, id, project.members, 1)
        last_member_row == m2.flow.row - 1
        m3 == IF ProjectCount(project) >= 2
              THEN [m2 EXCEPT !.seg.member_ranges =
                                  Append(m2.seg.member_ranges,
                                         <<first_member_row, last_member_row>>),
                              !.seg.border_starts =
                                  PutRange(m2.seg.border_starts, first_member_row + 1,
                                           last_member_row, COL_NAME)]
              ELSE m2
    IN IF ProjectCount(project) >= 1
       THEN [m3 EXCEPT !.seg.project_vline_ranges =
                           Append(m3.seg.project_vline_ranges,
                                  <<proj_row + 1, last_member_row>>)]
       ELSE m3

\* Faulty variant of WriteProjects: the Projects are written last to first.
RECURSIVE WriteProjectsReversed(_, _, _, _)
WriteProjectsReversed(m, path, projects, pi) ==
    IF pi > Len(projects) THEN m
    ELSE WriteProject(WriteProjectsReversed(m, path, projects, pi + 1),
                      path, projects[pi], pi)

\* for pi, project in enumerate(client.projects), from project number pi on
RECURSIVE WriteProjects(_, _, _, _)
WriteProjects(m, path, projects, pi) ==
    IF pi > Len(projects) THEN m
    ELSE WriteProjects(WriteProject(m, path, projects[pi], pi), path, projects, pi + 1)

\* Faulty variant of WriteClient: the row of a later Client's header is not
\* recorded as a Client boundary.
WriteClientUnrecorded(m, pid, cid, client) ==
    LET self == m.flow
        client_row == self.row
        m1 == [m EXCEPT !.seg.border_starts =
                            Put(m.seg.border_starts, client_row + 2, COL_PROJECT),
                        !.seg.first_client = FALSE,
                        !.seg.merged_rows = m.seg.merged_rows \cup {client_row},
                        !.cells = m.cells \cup
                                  {Cell(self, client_row, COL_CLIENT, <<"client", pid, cid>>),
                                   Cell(self, client_row + 1, COL_GRADE,
                                        <<"client_count", pid, cid, ClientCount(client)>>)},
                        !.merges = m.merges \cup
                                   {Merge(self, client_row, COL_CLIENT,
                                          client_row + 1, COL_EMPTY)},
                        !.flow.row = client_row + 2]
        m2 == WriteProjects(m1, <<pid, cid>>, client.projects, 1)
    IN [m2 EXCEPT !.seg.client_vline_ranges =
                      Append(m2.seg.client_vline_ranges,
                             <<client_row + 2, m2.flow.row - 1>>)]

\* the body of the client loop after the fit test (lines 231-322)
WriteClient(m, pid, cid, client) ==
    LET self == m.flow
        client_row == self.row
        starts0 == IF ~m.seg.first_client
                   THEN Put(m.seg.border_starts, client_row, COL_CLIENT)
                   ELSE m.seg.border_starts
        m1 == [m EXCEPT !.seg.border_starts = Put(starts0, client_row + 2, COL_PROJECT),
                        !.seg.first_client = FALSE,
                        !.seg.merged_rows = m.seg.merged_rows \cup {client_row},
                        !.cells = m.cells \cup
                                  {Cell(self, client_row, COL_CLIENT, <<"client", pid, cid>>),
                                   Cell(self, client_row + 1, COL_GRADE,
                                        <<"client_count", pid, cid, ClientCount(client)>>)},
                        !.merges = m.merges \cup
                                   {Merge(self, client_row, COL_CLIENT,
                                          client_row + 1, COL_EMPTY)},
                        !.flow.row = client_row + 2]
        m2 == WriteProjects(m1, <<pid, cid>>, client.projects, 1)
    IN [m2 EXCEPT !.seg.client_vline_ranges =
                      Append(m2.seg.client_vline_ranges,
                             <<client_row + 2, m2.flow.row - 1>>)]

\* _end_segment: the arguments it hands to _apply_partner_borders, if any
EndSegmentCalls(self, sg) ==
    IF sg = EmptySeg THEN <<>>
    ELSE IF self.row - 1 < sg.start_row THEN <<>>
    ELSE << [row_start |-> sg.start_row,
             row_end |-> self.row - 1,
             col_start |-> sg.col_base,
             col_end |-> sg.col_base + EXCEL_COLS_PER_VISUAL - 1,
             member_ranges |-> sg.member_ranges,
             border_starts |-> sg.border_starts,
             merged_rows |-> sg.merged_rows,
             partner_row |-> sg.partner_row,
             client_vline_ranges |-> sg.client_vline_ranges,
             project_vline_ranges |-> sg.project_vline_ranges,
             page |-> self.page,
             visual_col |-> self.visual_col] >>

(***************************************************************************)
(* Border resolver.                                                        *)
(***************************************************************************)
\* Faulty variant of _is_member_pair: only the lower row is looked up.
_is_member_pair_lower(row_a, row_b, member_ranges) ==
    \E i \in 1..Len(member_ranges) :
       member_ranges[i][1] <= row_b /\ row_b <= member_ranges[i][2]

_is_member_pair(row_a, row_b, member_ranges) ==
    \E i \in 1..Len(member_ranges) :
       /\ member_ranges[i][1] <= row_a /\ row_a <= member_ranges[i][2]
       /\ member_ranges[i][1] <= row_b /\ row_b <= member_ranges[i][2]

\* Faulty variant of _resolve_h_border: the rule starts one column too far right.
_resolve_h_border_late(row_boundary, col_offset, member_ranges, border_starts) ==
    IF row_boundary \notin DOMAIN border_starts THEN NOSIDE
    ELSE IF col_offset <= border_starts[row_boundary] THEN NOSIDE
    ELSE IF _is_member_pair(row_boundary - 1, row_boundary, member_ranges) THEN HAIR
    ELSE THIN

_resolve_h_border(row_boundary, col_offset, member_ranges, border_starts) ==
    IF row_boundary \notin DOMAIN border_starts THEN NOSIDE
    ELSE IF col_offset < border_starts[row_boundary] THEN NOSIDE
    ELSE IF _is_member_pair(row_boundary - 1, row_boundary, member_ranges) THEN HAIR
    ELSE THIN

InRanges(r, ranges) ==
    \E i \in 1..Len(ranges) : ranges[i][1] <= r /\ r <= ranges[i][2]

\* Faulty variant of the top side: the row above is not looked up in merged_rows.
TopSideThroughMerge(a, r, col) ==
    IF r = a.row_start THEN MEDIUM
    ELSE _resolve_h_border(r, col - a.col_start, a.member_ranges, a.border_starts)

\* the top side _apply_partner_borders gives cell (r, col) (lines 386-393)
TopSide(a, r, col) ==
    IF r = a.row_start THEN MEDIUM
    ELSE IF (r - 1) \in a.merged_rows THEN NOSIDE
    ELSE _resolve_h_border(r, col - a.col_start, a.member_ranges, a.border_starts)

\* Faulty variant of the bottom side: the last row is resolved like an interior row.
BottomSideNoFrame(a, r, col) ==
    IF r \in a.merged_rows THEN NOSIDE
    ELSE _resolve_h_border(r + 1, col - a.col_start, a.member_ranges, a.border_starts)

\* the bottom side (lines 395-402)
BottomSide(a, r, col) ==
    IF r = a.row_end THEN MEDIUM
    ELSE IF r \in a.merged_rows THEN NOSIDE
    ELSE _resolve_h_border(r + 1, col - a.col_start, a.member_ranges, a.border_starts)

\* the left side (line 405)
LeftSide(a, r, col) == IF col = a.col_start THEN MEDIUM ELSE NOSIDE

\* Faulty variant of the right side: the Partner divider starts one row early.
RightSideEarly(a, r, col) ==
    LET col_offset == col - a.col_start
        right0 == IF col = a.col_end THEN MEDIUM ELSE NOSIDE
        right1 == IF col_offset = COL_PARTNER /\ r >= a.partner_row + 1
                  THEN THIN ELSE right0
        right2 == IF col_offset = COL_CLIENT /\ InRanges(r, a.client_vline_ranges)
                  THEN THIN ELSE right1
    IN IF col_offset = COL_PROJECT /\ InRanges(r, a.project_vline_ranges)
       THEN THIN ELSE right2

\* the right side (lines 406-424)
RightSide(a, r, col) ==
    LET col_offset == col - a.col_start
        right0 == IF col = a.col_end THEN MEDIUM ELSE NOSIDE
        right1 == IF col_offset = COL_PARTNER /\ r >= a.partner_row + 2
                  THEN THIN ELSE right0
        right2 == IF col_offset = COL_CLIENT /\ InRanges(r, a.client_vline_ranges)
                  THEN THIN ELSE right1
    IN IF col_offset = COL_PROJECT /\ InRanges(r, a.project_vline_ranges)
       THEN THIN ELSE right2

\* the Border(...) one call of _apply_partner_borders assigns to each cell
_apply_partner_borders(a) ==
    [rc \in (a.row_start..a.row_end) \X (a.col_start..a.col_end) |->
        [top |-> TopSide(a, rc[1], rc[2]),
         bottom |-> BottomSide(a, rc[1], rc[2]),
         left |-> LeftSide(a, rc[1], rc[2]),
         right |-> RightSide(a, rc[1], rc[2])]]

(***************************************************************************)
(* The run of generate: the Partners of every Division in turn, each       *)
(* placed by write_partner_clients, one step per call it makes.            *)
(***************************************************************************)
VARIABLES
    divisions,      \* the tree handed to generate
    flow,           \* the FlowLayout object
    seg,            \* write_partner_clients' seg dict
    cells,          \* the cells given a value
    merges,         \* the merged ranges
    border_calls,   \* the calls of _apply_partner_borders, in order
    pc,             \* where write_partner_clients stands
    pos,            \* number of the Partner in generate's iteration order
    ci,             \* number of the client in the client loop
    entry,          \* history: the cursor when write_partner_clients was last called
    page_hi,        \* history: the highest row the cursor reached on its page
    roster,         \* the records handed to process
    built,          \* what process returned
    first           \* history: what an earlier run of the engine produced

vars == <<divisions, flow, seg, cells, merges, border_calls, pc, pos, ci,
          entry, page_hi, roster, built, first>>

\* The history of the cursor's row on the page it is on.
TrackRow ==
    page_hi' = IF flow'.page = flow.page THEN Max(page_hi, flow'.row) ELSE flow'.row

\* for division in divisions: for partner in division.partners (lines 508-509)
RECURSIVE IterOrder(_, _)
IterOrder(divs, d) ==
    IF d > Len(divs) THEN <<>>
    ELSE [i \in 1..Len(divs[d].partners) |-> <<d, i>>] \o IterOrder(divs, d + 1)

Order == IterOrder(divisions, 1)

PartnerAt(divs, k) == divs[IterOrder(divs, 1)[k][1]].partners[IterOrder(divs, 1)[k][2]]

KeyAt(divs, k) == divs[IterOrder(divs, 1)[k][1]].key

Current == PartnerAt(divisions, pos)

Machine == [flow |-> flow, seg |-> seg, cells |-> cells, merges |-> merges]

Install(m) ==
    /\ flow' = m.flow
    /\ seg' = m.seg
    /\ cells' = m.cells
    /\ merges' = m.merges

Init ==
    /\ divisions \in Trees
    /\ \E c \in 1..MaxColumns, r \in 1..MaxCapacity : flow = FlowLayoutInit(c, r)
    /\ seg = EmptySeg
    /\ cells = {}
    /\ merges = {}
    /\ border_calls = <<>>
    /\ pc = "idle"
    /\ pos = 1
    /\ ci = 1
    /\ entry = flow
    /\ page_hi = flow.row
    /\ roster = <<>>
    /\ built = <<>>
    /\ first = <<>>

\* lines 149, 216-217: seg = {}, first_h, ensure_fit(PARTNER_HEADER_ROWS + first_h)
EnsureFitFirst ==
    /\ pc = "idle"
    /\ pos <= Len(Order)
    /\ LET first_h == IF Len(Current.clients) > 0
                      THEN ClientRowHeight(Current.clients[1]) ELSE 0
       IN flow' = ensure_fit(flow, PARTNER_HEADER_ROWS + first_h)
    /\ seg' = EmptySeg
    /\ pc' = "begin_first"
    /\ entry' = flow
    /\ TrackRow
    /\ UNCHANGED <<divisions, cells, merges, border_calls, pos, ci>>
    /\ UNCHANGED <<roster, built, first>>

\* line 218: _begin_segment()
BeginSegmentFirst ==
    /\ pc = "begin_first"
    /\ Install(_begin_segment(Machine, Current, KeyAt(divisions, pos), pos))
    /\ pc' = "loop"
    /\ ci' = 1
    /\ TrackRow
    /\ UNCHANGED <<divisions, border_calls, pos, entry>>
    /\ UNCHANGED <<roster, built, first>>

\* lines 221-225: the next client, and whether it fits the column
CheckFit ==
    /\ pc = "loop"
    /\ ci <= Len(Current.clients)
    /\ pc' = IF ~can_fit(flow, ClientRowHeight(Current.clients[ci]))
             THEN "close" ELSE "write"
    /\ UNCHANGED <<divisions, flow, seg, cells, merges, border_calls, pos, ci,
                   entry, page_hi>>
    /\ UNCHANGED <<roster, built, first>>

\* line 226: _end_segment()
EndSegmentFull ==
    /\ pc = "close"
    /\ border_calls' = border_calls \o EndSegmentCalls(flow, seg)
    /\ pc' = "advance"
    /\ UNCHANGED <<divisions, flow, seg, cells, merges, pos, ci, entry, page_hi>>
    /\ UNCHANGED <<roster, built, first>>

\* line 227: self.next_column()
NextColumn ==
    /\ pc = "advance"
    /\ flow' = next_column(flow)
    /\ pc' = "ensure"
    /\ TrackRow
    /\ UNCHANGED <<divisions, seg, cells, merges, border_calls, pos, ci, entry>>
    /\ UNCHANGED <<roster, built, first>>

\* line 228: self.ensure_fit(PARTNER_HEADER_ROWS + client_h)
EnsureFitClient ==
    /\ pc = "ensure"
    /\ flow' = ensure_fit(flow, PARTNER_HEADER_ROWS
                                + ClientRowHeight(Current.clients[ci]))
    /\ pc' = "begin"
    /\ TrackRow
    /\ UNCHANGED <<divisions, seg, cells, merges, border_calls, pos, ci, entry>>
    /\ UNCHANGED <<roster, built, first>>

\* line 229: _begin_segment()
BeginSegmentNext ==
    /\ pc = "begin"
    /\ Install(_begin_segment(Machine, Current, KeyAt(divisions, pos), pos))
    /\ pc' = "write"
    /\ TrackRow
    /\ UNCHANGED <<divisions, border_calls, pos, ci, entry>>
    /\ UNCHANGED <<roster, built, first>>

\* lines 231-322: the client's header, projects and members
PlaceClient ==
    /\ pc = "write"
    /\ Install(WriteClient(Machine, pos, ci, Current.clients[ci]))
    /\ pc' = "loop"
    /\ ci' = ci + 1
    /\ TrackRow
    /\ UNCHANGED <<divisions, border_calls, pos, entry>>
    /\ UNCHANGED <<roster, built, first>>

\* lines 324-328: close the last segment, leave the blank row; the next Partner
EndPartner ==
    /\ pc = "loop"
    /\ ci > Len(Current.clients)
    /\ border_calls' = border_calls \o EndSegmentCalls(flow, seg)
    /\ flow' = [flow EXCEPT !.row = flow.row + PARTNER_GAP_ROWS]
    /\ pc' = "idle"
    /\ pos' = pos + 1
    /\ TrackRow
    /\ UNCHANGED <<divisions, seg, cells, merges, ci, entry>>
    /\ UNCHANGED <<roster, built, first>>

Next ==
    \/ EnsureFitFirst
    \/ BeginSegmentFirst
    \/ CheckFit
    \/ EndSegmentFull
    \/ NextColumn
    \/ EnsureFitClient
    \/ BeginSegmentNext
    \/ PlaceClient
    \/ EndPartner

Spec == Init /\ [][Next]_vars

(***************************************************************************)
(* Vocabulary of the properties.                                           *)
(***************************************************************************)
\* The content-start row of page k of the run so far.
PageStart(k) ==
    IF k = 0 THEN CONTENT_START_ROW ELSE flow.page_break_rows[k] + HEADER_ROWS

\* The number of the column the cursor is in, counted over all pages.
AbsCol(self) == self.page * self.cols_per_page + self.visual_col

ClientKinds ==
    {"client", "client_count", "project", "project_count", "name", "dept", "grade"}

PartnerKinds == {"partner", "sales", "partner_count"}

\* The cells written for client cid of Partner pid.
CellsOfClient(pid, cid) ==
    {c \in cells : c.value[1] \in ClientKinds /\ c.value[2] = pid /\ c.value[3] = cid}

\* The clients that have been placed: <<pid, cid>>.
PlacedClients == {<<c.value[2], c.value[3]>> : c \in {d \in cells : d.value[1] = "client"}}

ClientAt(pid, cid) == PartnerAt(divisions, pid).clients[cid]

\* The rows that hold a value in visual column v of page k.
RowsWritten(k, v) == {c.row : c \in {d \in cells : d.page = k /\ d.visual_col = v}}

\* The segment being written, if one is open, as the rectangle it covers so far.
OpenSegments ==
    IF pc \in {"loop", "write", "close"}
    THEN {[row_start |-> seg.start_row, row_end |-> flow.row - 1,
           col_start |-> seg.col_base,
           col_end |-> seg.col_base + EXCEL_COLS_PER_VISUAL - 1,
           page |-> flow.page, visual_col |-> flow.visual_col]}
    ELSE {}

\* The segments closed so far, as rectangles.
ClosedSegments ==
    {[row_start |-> border_calls[i].row_start, row_end |-> border_calls[i].row_end,
      col_start |-> border_calls[i].col_start, col_end |-> border_calls[i].col_end,
      page |-> border_calls[i].page, visual_col |-> border_calls[i].visual_col] :
     i \in 1..Len(border_calls)}

Segments == ClosedSegments \cup OpenSegments

InSegment(c, s) ==
    /\ c.page = s.page /\ c.visual_col = s.visual_col
    /\ s.row_start <= c.row /\ c.row <= s.row_end
    /\ s.col_start <= c.column /\ c.column <= s.col_end

(***************************************************************************)
(* C1.  Capacity: in every (page, visual column) that received content,    *)
(* at most max_rows_per_column rows are written, and no written row lies   *)
(* below page_start_row + max_rows_per_column - 1 of its page, whatever    *)
(* the tree.  Stated here for the trees process builds, which suffices to  *)
(* refute it: the code has no check of a unit higher than a column, and    *)
(* writes it past the column's last row.                                   *)
(***************************************************************************)
C1_CapacityRespected ==
    BuiltByProcess(divisions) =>
      \A c \in cells :
         /\ c.row <= PageStart(c.page) + flow.max_rows - 1
         /\ Cardinality(RowsWritten(c.page, c.visual_col)) <= flow.max_rows

(***************************************************************************)
(* C2.  A unit (Partner header and Client) that does not fit a fresh       *)
(* column stops the engine with a configuration error: none of that        *)
(* Client's rows is ever written.  Stated for the trees process builds;    *)
(* the code has no such error and writes the Client all the same.          *)
(***************************************************************************)
C2_OversizedClientNeverWritten ==
    BuiltByProcess(divisions) =>
      \A pl \in PlacedClients :
         PARTNER_HEADER_ROWS + ClientRowHeight(ClientAt(pl[1], pl[2])) <= flow.max_rows

\* The least and the greatest of a non-empty set of rows.
MinOf(S) == CHOOSE r \in S : \A q \in S : r <= q

MaxOf(S) == CHOOSE r \in S : \A q \in S : r >= q

\* The column, counted over all pages, a cell was written in.
CellAbsCol(c) == c.page * flow.cols_per_page + c.visual_col

(***************************************************************************)
(* C3.  Atomicity: the rows of every placed Client (header rows, project   *)
(* name rows, person rows) are one contiguous range of rows inside one     *)
(* segment of one (page, visual column).                                   *)
(***************************************************************************)
C3_ClientAtomic ==
    \A pl \in PlacedClients :
       LET cs == CellsOfClient(pl[1], pl[2])
           rows == {c.row : c \in cs}
       IN /\ rows = MinOf(rows)..MaxOf(rows)
          /\ \E s \in Segments : \A c \in cs : InSegment(c, s)

\* A second Client with people that was moved to another column than the first.
C3_Witness ==
    \E pl \in PlacedClients :
       /\ pl[2] = 2
       /\ ClientCount(ClientAt(pl[1], 2)) >= 2
       /\ \E c1 \in CellsOfClient(pl[1], 1), c2 \in CellsOfClient(pl[1], 2) :
             CellAbsCol(c1) # CellAbsCol(c2)

(***************************************************************************)
(* C4.  Header repeat: every segment of a Partner starts with that         *)
(* Partner's two header rows (name, territory label, people count), every  *)
(* Client row of the segment lies below them, and every Client row lies in *)
(* such a segment: each column the Partner's Clients occupy has the header *)
(* at the top of the Partner's block.                                      *)
(***************************************************************************)
HeaderOf(s, pid) ==
    {[row |-> s.row_start, column |-> s.col_start + COL_PARTNER,
      value |-> <<"partner", pid>>, page |-> s.page, visual_col |-> s.visual_col],
     [row |-> s.row_start, column |-> s.col_start + COL_GRADE,
      value |-> <<"sales", pid, KeyAt(divisions, pid)>>,
      page |-> s.page, visual_col |-> s.visual_col],
     [row |-> s.row_start + 1, column |-> s.col_start + COL_GRADE,
      value |-> <<"partner_count", pid, PartnerCount(PartnerAt(divisions, pid))>>,
      page |-> s.page, visual_col |-> s.visual_col]}

C4_HeaderRepeats ==
    /\ \A s \in Segments :
          \E pid \in 1..Len(Order) :
             /\ HeaderOf(s, pid) \subseteq cells
             /\ \A c \in cells :
                   (c.value[1] \in ClientKinds /\ InSegment(c, s)) =>
                      (c.value[2] = pid /\ c.row >= s.row_start + PARTNER_HEADER_ROWS)
    /\ \A c \in cells :
          c.value[1] \in ClientKinds => \E s \in Segments : InSegment(c, s)

\* A Partner with Clients in two closed segments of two different columns.
C4_Witness ==
    \E s1 \in ClosedSegments, s2 \in ClosedSegments :
       /\ <<s1.page, s1.visual_col>> # <<s2.page, s2.visual_col>>
       /\ \E pid \in 1..Len(Order) :
             /\ HeaderOf(s1, pid) \cup HeaderOf(s2, pid) \subseteq cells
             /\ \E c1 \in cells, c2 \in cells :
                   /\ c1.value[1] = "client" /\ InSegment(c1, s1)
                   /\ c2.value[1] = "client" /\ InSegment(c2, s2)

(***************************************************************************)
(* C5.  Scenario C.  Original statement: a Partner of two Clients, each of *)
(* row-height <= max_rows_per_column, whose combined height exceeds the    *)
(* space left in the current column, gets its header exactly twice, once   *)
(* in each of two columns, the first Client wholly in the first and the    *)
(* second wholly in the second.  It fails when header and first Client do  *)
(* not fit the space left either: the Partner then starts in a fresh       *)
(* column, where both Clients may fit under one header.                    *)
(* Amended: ... and the Partner header with the first Client fits the      *)
(* space left in the current column.                                       *)
(***************************************************************************)
\* The rows free in the column the cursor `self` is in.
SpaceLeft(self) == self.page_start_row + self.max_rows - self.row

\* The header of Partner pid is written exactly twice, in two columns, Client 1
\* wholly in the first of them and Client 2 wholly in the second.
SplitAtClientBoundary(pid) ==
    LET headers == {c \in cells : c.value = <<"partner", pid>>}
    IN /\ Cardinality(headers) = 2
       /\ \E h1 \in headers, h2 \in headers :
             /\ CellAbsCol(h1) < CellAbsCol(h2)
             /\ \A c \in CellsOfClient(pid, 1) :
                   CellAbsCol(c) = CellAbsCol(h1) /\ c.row > h1.row
             /\ \A c \in CellsOfClient(pid, 2) :
                   CellAbsCol(c) = CellAbsCol(h2) /\ c.row > h2.row
       /\ \A cid \in 1..2 :
             LET rows == {c.row : c \in CellsOfClient(pid, cid)}
             IN rows = MinOf(rows)..MaxOf(rows)

\* write_partner_clients has returned from a Partner of two Clients as in Scenario C.
ScenarioC(pid) ==
    LET partner == PartnerAt(divisions, pid)
    IN /\ Len(partner.clients) = 2
       /\ ClientRowHeight(partner.clients[1]) <= flow.max_rows
       /\ ClientRowHeight(partner.clients[2]) <= flow.max_rows
       /\ ClientRowHeight(partner.clients[1]) + ClientRowHeight(partner.clients[2])
             > SpaceLeft(entry)

EnsureFitEffect(h) ==
    IF flow.row + h - 1 > flow.page_start_row + flow.max_rows - 1
    THEN /\ AbsCol(flow') = AbsCol(flow) + 1
         /\ flow'.row = flow'.page_start_row
         /\ flow'.cols_per_page = flow.cols_per_page
         /\ flow'.max_rows = flow.max_rows
    ELSE flow' = flow

C6_EnsureFit ==
    [][/\ (pc = "idle" /\ pc' = "begin_first") =>
             EnsureFitEffect(PARTNER_HEADER_ROWS
                             + (IF Len(Current.clients) > 0
                                THEN ClientRowHeight(Current.clients[1]) ELSE 0))
       /\ (pc = "ensure" /\ pc' = "begin") =>
             EnsureFitEffect(PARTNER_HEADER_ROWS + ClientRowHeight(Current.clients[ci]))
       /\ (pc = "loop" /\ pc' \in {"write", "close"}) => flow' = flow]_vars

\* ensure_fit has just advanced out of a column that held rows already, for a
\* Partner header and first Client that fit a fresh column.
C6_Witness ==
    /\ pc = "begin_first" /\ pos > 1
    /\ entry.row > entry.page_start_row
    /\ AbsCol(flow) = AbsCol(entry) + 1
    /\ flow.row = flow.page_start_row
    /\ Len(Current.clients) >= 1
    /\ can_fit(flow, PARTNER_HEADER_ROWS + ClientRowHeight(Current.clients[1]))

(***************************************************************************)
(* C7.  A column advance from a column that is not the last of its page    *)
(* adds one to the column index, puts the row at the page's content-start  *)
(* row and leaves page index, content-start row and page-break list alone. *)
(* An advance from the last column of the page appends one page-break row, *)
(* the highest row the cursor reached in any column of that page, sets the *)
(* column index to 0, adds one to the page index, and puts content-start   *)
(* row, row and high-water mark at break row + HEADER_ROWS.                *)
(***************************************************************************)
\* The step is a column advance: next_column itself, or an ensure_fit that advances.
Advancing ==
    \/ pc = "advance" /\ pc' = "ensure"
    \/ pc = "idle" /\ pc' = "begin_first" /\ flow' # flow
    \/ pc = "ensure" /\ pc' = "begin" /\ flow' # flow

C7_NextColumn ==
    [][Advancing =>
         IF flow.visual_col # flow.cols_per_page - 1
         THEN /\ flow'.visual_col = flow.visual_col + 1
              /\ flow'.row = flow.page_start_row
              /\ flow'.page = flow.page
              /\ flow'.page_start_row = flow.page_start_row
              /\ flow'.page_break_rows = flow.page_break_rows
         ELSE /\ flow'.page_break_rows = Append(flow.page_break_rows, page_hi)
              /\ flow'.visual_col = 0
              /\ flow'.page = flow.page + 1
              /\ flow'.page_start_row = page_hi + HEADER_ROWS
              /\ flow'.row = page_hi + HEADER_ROWS
              /\ flow'.page_max_row = page_hi + HEADER_ROWS]_vars

\* A page of two columns was closed whose first column reached further down
\* than its last.
C7_Witness ==
    /\ pc = "ensure"
    /\ flow.cols_per_page = 2 /\ flow.page >= 1 /\ flow.visual_col = 0
    /\ flow.row = flow.page_start_row
    /\ \E c0 \in cells :
          /\ c0.page = flow.page - 1 /\ c0.visual_col = 0
          /\ \A c1 \in cells :
                (c1.page = flow.page - 1 /\ c1.visual_col = 1) => c1.row + 2 < c0.row
    /\ \E c1 \in cells : c1.page = flow.page - 1 /\ c1.visual_col = 1

(***************************************************************************)
(* C8.  Height invariant: a Project's row-height is 1 + its people, a      *)
(* Client's is 2 + the row-heights of its Projects, a Partner's is 2 + the *)
(* row-heights of its Clients; so a row-height counts one row per person,  *)
(* one per Project and two per Client and Partner below it, and is at      *)
(* least the fixed overhead, also for a container with no children.        *)
(***************************************************************************)
\* <<c, j>> for every Project j of Client c of the Partner.
ProjectPaths(partner) ==
    UNION {{<<c, j>> : j \in 1..Len(partner.clients[c].projects)} :
           c \in 1..Len(partner.clients)}

\* <<c, j, k>> for every person k of Project j of Client c of the Partner.
MemberPaths(partner) ==
    UNION {{<<pp[1], pp[2], k>> :
              k \in 1..Len(partner.clients[pp[1]].projects[pp[2]].members)} :
           pp \in ProjectPaths(partner)}

AllPartners == {PartnerAt(divisions, k) : k \in 1..Len(Order)}

C8_RowHeights ==
    \A partner \in AllPartners :
       /\ PartnerRowHeight(partner)
            = 2 + 2 * Len(partner.clients) + Cardinality(ProjectPaths(partner))
                + Cardinality(MemberPaths(partner))
       /\ PartnerRowHeight(partner) >= 2
       /\ \A c \in 1..Len(partner.clients) :
             LET client == partner.clients[c]
                 below == {mp \in MemberPaths(partner) : mp[1] = c}
             IN /\ ClientRowHeight(client)
                     = 2 + Len(client.projects) + Cardinality(below)
                /\ ClientRowHeight(client) >= 2
                /\ \A j \in 1..Len(client.projects) :
                      /\ ProjectRowHeight(client.projects[j])
                           = 1 + Cardinality({mp \in below : mp[2] = j})
                      /\ ProjectRowHeight(client.projects[j]) >= 1

\* A tree with a Partner without Clients, a Client without Projects and a
\* Project without people, next to a Partner whose row-height is above its
\* overhead.
C8_Witness ==
    /\ \E partner \in AllPartners : Len(partner.clients) = 0
    /\ \E partner \in AllPartners :
          /\ PartnerRowHeight(partner) > 2
          /\ \E c \in 1..Len(partner.clients) : Len(partner.clients[c].projects) = 0
          /\ \E pp \in ProjectPaths(partner) :
                Len(partner.clients[pp[1]].projects[pp[2]].members) = 0

(***************************************************************************)
(* C9.  Outer frame: in every closed segment the top side of every cell of *)
(* the first row, the bottom side of every cell of the last row, the left  *)
(* side of every cell of the first column and the right side of every cell *)
(* of the last column are medium, whatever rows are merged, whatever       *)
(* boundary rows and vertical-rule ranges are recorded.                    *)
(***************************************************************************)
C9_OuterFrame ==
    \A i \in 1..Len(border_calls) :
       LET a == border_calls[i]
           border == _apply_partner_borders(a)
       IN /\ \A col \in a.col_start..a.col_end :
                /\ border[<<a.row_start, col>>].top = MEDIUM
                /\ border[<<a.row_end, col>>].bottom = MEDIUM
          /\ \A r \in a.row_start..a.row_end :
                /\ border[<<r, a.col_start>>].left = MEDIUM
                /\ border[<<r, a.col_end>>].right = MEDIUM

\* A header-only segment of two rows and a segment with people have been closed.
C9_Witness ==
    /\ \E i \in 1..Len(border_calls) :
          border_calls[i].row_end = border_calls[i].row_start + 1
    /\ \E i \in 1..Len(border_calls) :
          /\ Len(border_calls[i].member_ranges) >= 1
          /\ Len(border_calls[i].client_vline_ranges) >= 1

(***************************************************************************)
(* C10.  An interior horizontal edge of a segment at a recorded Client or  *)
(* Project boundary row, not inside a merged header, at a column at or     *)
(* right of the boundary's start-offset.  Original statement: it is drawn  *)
(* medium.  The code draws it thin; medium is the outer frame's weight.    *)
(* Amended: it is drawn thin.                                              *)
(***************************************************************************)
\* <<r, off>>: the edge above row r at column offset off is such an edge of call a.
LevelBoundaryEdges(a) ==
    {e \in ((a.row_start + 1)..a.row_end) \X (0..(EXCEL_COLS_PER_VISUAL - 1)) :
       /\ e[1] \in DOMAIN a.border_starts
       /\ a.border_starts[e[1]] \in {COL_CLIENT, COL_PROJECT}
       /\ (e[1] - 1) \notin a.merged_rows
       /\ e[2] >= a.border_starts[e[1]]}

\* Every such edge has the weight, as the top of the row below and as the
\* bottom of the row above.
LevelBoundariesDrawn(weight) ==
    \A i \in 1..Len(border_calls) :
       LET a == border_calls[i]
           border == _apply_partner_borders(a)
       IN \A e \in LevelBoundaryEdges(a) :
             /\ border[<<e[1], a.col_start + e[2]>>].top = weight
             /\ border[<<e[1] - 1, a.col_start + e[2]>>].bottom = weight

C10_BoundaryMedium_Original == BuiltByProcess(divisions) => LevelBoundariesDrawn(MEDIUM)

C10_BoundaryThin == LevelBoundariesDrawn(THIN)

\* A closed segment with a boundary above a Client and one between two
\* Projects, and a closed segment with a boundary between two Clients.
C10_Witness ==
    /\ \E i \in 1..Len(border_calls) :
          LET a == border_calls[i]
          IN /\ \E e \in LevelBoundaryEdges(a) : a.border_starts[e[1]] = COL_CLIENT
             /\ \E e \in LevelBoundaryEdges(a) :
                   /\ a.border_starts[e[1]] = COL_PROJECT
                   /\ (e[1] - 2) \notin a.merged_rows
    /\ \E i \in 1..Len(border_calls) :
          LET a == border_calls[i]
          IN \E e \in LevelBoundaryEdges(a) :
                a.border_starts[e[1]] = COL_CLIENT /\ e[1] > a.partner_row + 2

(***************************************************************************)
(* C11.  Sibling rule: in every closed segment an interior horizontal edge *)
(* is hair exactly when the rows above and below it are People of the same *)
(* Project and the column is the name column or right of it, so a Project  *)
(* of k >= 2 People has its k - 1 hair edges, a Project of one Person has  *)
(* none, and no edge between two Projects is hair; the edge between a      *)
(* Project's name row and its first Person is thin, not hair.              *)
(***************************************************************************)
\* The name cells written inside the rectangle of call a.
NameCells(a) ==
    {c \in cells : /\ c.value[1] = "name"
                   /\ c.page = a.page /\ c.visual_col = a.visual_col
                   /\ a.row_start <= c.row /\ c.row <= a.row_end}

\* Rows r1 and r2 of call a hold People of one Project.
SameProjectPeople(a, r1, r2) ==
    \E c1 \in NameCells(a), c2 \in NameCells(a) :
       /\ c1.row = r1 /\ c2.row = r2
       /\ SubSeq(c1.value, 2, 4) = SubSeq(c2.value, 2, 4)

\* Row r of call a holds the first Person of a Project.
FirstPersonRow(a, r) == \E c \in NameCells(a) : c.row = r /\ c.value[5] = 1

C11_SiblingHair ==
    \A i \in 1..Len(border_calls) :
       LET a == border_calls[i]
           border == _apply_partner_borders(a)
       IN \A r \in (a.row_start + 1)..a.row_end :
          \A off \in 0..(EXCEL_COLS_PER_VISUAL - 1) :
             LET sibling == SameProjectPeople(a, r - 1, r) /\ off >= COL_NAME
                 top == border[<<r, a.col_start + off>>].top
                 bottom == border[<<r - 1, a.col_start + off>>].bottom
             IN /\ (top = HAIR) <=> sibling
                /\ (bottom = HAIR) <=> sibling
                /\ (FirstPersonRow(a, r) /\ off >= COL_NAME) =>
                      (top = THIN /\ bottom = THIN)

\* Scenario D: a closed segment, no taller than a column, with a Project of
\* three People.
C11_Witness ==
    \E i \in 1..Len(border_calls) :
       LET a == border_calls[i]
       IN /\ a.row_end - a.row_start + 1 <= flow.max_rows
          /\ \E c \in NameCells(a) : c.value[5] = 3

(***************************************************************************)
(* C12.  Merge exclusion: for every two-row merged header (Partner name,   *)
(* Client name) with top row r in a closed segment, the edge between rows  *)
(* r and r + 1 has no stroke on any column of the segment, as the bottom   *)
(* of row r and as the top of row r + 1, whatever boundary rows are        *)
(* recorded: also when row r + 1 is itself recorded as a boundary row      *)
(* starting at the segment's first column.                                 *)
(***************************************************************************)
\* The top rows of the two-row merged ranges inside the rectangle of call a.
MergedHeaderRows(a) ==
    {mg.start_row : mg \in {x \in merges : /\ x.end_row = x.start_row + 1
                                           /\ a.row_start <= x.start_row
                                           /\ x.end_row <= a.row_end
                                           /\ a.col_start <= x.start_column
                                           /\ x.end_column <= a.col_end}}

\* Call a with row b recorded as one more boundary row, from the first column on.
WithBoundaryAt(a, b) ==
    [a EXCEPT !.border_starts = Put(a.border_starts, b, COL_PARTNER)]

C12_MergeExclusion ==
    \A i \in 1..Len(border_calls) :
       LET a == border_calls[i]
       IN \A r \in MergedHeaderRows(a) :
          \A arg \in {a, WithBoundaryAt(a, r + 1)} :
             LET border == _apply_partner_borders(arg)
             IN \A col \in a.col_start..a.col_end :
                   /\ border[<<r, col>>].bottom = NOSIDE
                   /\ border[<<r + 1, col>>].top = NOSIDE

\* A closed segment, no taller than a column, with the merged header of the
\* Partner and the merged headers of two Clients.
C12_Witness ==
    \E i \in 1..Len(border_calls) :
       LET a == border_calls[i]
       IN /\ a.row_end - a.row_start + 1 <= flow.max_rows
          /\ Cardinality(MergedHeaderRows(a)) >= 3
          /\ a.partner_row \in MergedHeaderRows(a)

(***************************************************************************)
(* C13.  Boundary start-offsets.  In every closed segment an interior      *)
(* horizontal edge whose upper row is not the top row of a merged header   *)
(* has a stroke at column offset c iff the row below it is a recorded      *)
(* boundary row with start-offset <= c.  And the edge above every Client   *)
(* header but the segment's first starts at offset 1, above every Project  *)
(* name row at offset 2, above every Person row at offset 3, also after a  *)
(* Client without Projects or a Project without People.                    *)
(***************************************************************************)
\* The cells of the given kind written inside the rectangle of call a.
KindCells(a, kind) ==
    {c \in cells : /\ c.value[1] = kind
                   /\ c.page = a.page /\ c.visual_col = a.visual_col
                   /\ a.row_start <= c.row /\ c.row <= a.row_end}

\* The edge above row r of call a is stroked exactly from column offset k on.
StrokeFrom(a, r, k) ==
    LET border == _apply_partner_borders(a)
    IN \A off \in 0..(EXCEL_COLS_PER_VISUAL - 1) :
          /\ (border[<<r, a.col_start + off>>].top # NOSIDE) <=> (off >= k)
          /\ (border[<<r - 1, a.col_start + off>>].bottom # NOSIDE) <=> (off >= k)

C13_BoundaryOffsets ==
    \A i \in 1..Len(border_calls) :
       LET a == border_calls[i]
           border == _apply_partner_borders(a)
       IN /\ \A r \in (a.row_start + 1)..a.row_end :
                (r - 1) \notin a.merged_rows =>
                   \A off \in 0..(EXCEL_COLS_PER_VISUAL - 1) :
                      LET recorded == /\ r \in DOMAIN a.border_starts
                                      /\ a.border_starts[r] <= off
                      IN /\ (border[<<r, a.col_start + off>>].top # NOSIDE)
                               <=> recorded
                         /\ (border[<<r - 1, a.col_start + off>>].bottom # NOSIDE)
                               <=> recorded
          /\ \A c \in KindCells(a, "client") :
                c.row > a.partner_row + PARTNER_HEADER_ROWS => StrokeFrom(a, c.row, COL_CLIENT)
          /\ \A c \in KindCells(a, "project") : StrokeFrom(a, c.row, COL_PROJECT)
          /\ \A c \in KindCells(a, "name") : StrokeFrom(a, c.row, COL_NAME)

\* A closed segment, no taller than a column, in which a Client follows a
\* Client without Projects and a Project follows a Project without People.
C13_Witness ==
    \E i \in 1..Len(border_calls) :
       LET a == border_calls[i]
       IN /\ a.row_end - a.row_start + 1 <= flow.max_rows
          /\ \E c1 \in KindCells(a, "client"), c2 \in KindCells(a, "client") :
                c2.row = c1.row + 2
          /\ \E p1 \in KindCells(a, "project"), p2 \in KindCells(a, "project") :
                p2.row = p1.row + 1

(***************************************************************************)
(* C14.  Vertical rules.  In every closed segment the right edge of the    *)
(* Client divider column (offset 1) at row r is stroked iff r lies between *)
(* two rows below some Client's header row and that Client's last content  *)
(* row; that of the Project divider column (offset 2) iff r lies between   *)
(* the row below some Project's name row and that Project's last Person    *)
(* row; that of the Partner divider column (offset 0) iff r is at least    *)
(* two rows below the Partner header row.  So no divider is stroked on a   *)
(* Partner header row; the Client and Project dividers are not stroked on *)
(* a Client header row, nor the Project divider on a Project name row.     *)
(***************************************************************************)
\* The last row holding a cell whose identity starts with id (a Client's
\* <<pid, cid>> or a Project's <<pid, cid, pi>>) and whose kind is in kinds.
LastRowOf(id, kinds) ==
    MaxOf({c.row : c \in {d \in cells : /\ d.value[1] \in kinds
                                        /\ Len(d.value) > Len(id)
                                        /\ SubSeq(d.value, 2, Len(id) + 1) = id}})

PlacedBefore(c1, c2) ==
    \/ CellAbsCol(c1) < CellAbsCol(c2)
    \/ CellAbsCol(c1) = CellAbsCol(c2) /\ c1.row < c2.row

WrittenInListOrder ==
    LET names == {c \in cells : c.value[1] = "name"}
        projects == {c \in cells : c.value[1] = "project"}
        clients == {c \in cells : c.value[1] = "client"}
    IN /\ \A c1 \in names, c2 \in names :
             (SubSeq(c1.value, 2, 4) = SubSeq(c2.value, 2, 4) /\ c1.value[5] < c2.value[5])
                => (CellAbsCol(c1) = CellAbsCol(c2) /\ c1.row < c2.row)
       /\ \A c1 \in projects, c2 \in projects :
             (SubSeq(c1.value, 2, 3) = SubSeq(c2.value, 2, 3) /\ c1.value[4] < c2.value[4])
                => (CellAbsCol(c1) = CellAbsCol(c2) /\ c1.row < c2.row)
       /\ \A c1 \in clients, c2 \in clients :
             (c1.value[2] = c2.value[2] /\ c1.value[3] < c2.value[3])
                => PlacedBefore(c1, c2)
       /\ \A c \in names :
             /\ c.value[2] \in 1..Len(Order)
             /\ c.value[3] \in 1..Len(PartnerAt(divisions, c.value[2]).clients)
             /\ c.value[4] \in 1..Len(ClientAt(c.value[2], c.value[3]).projects)
             /\ c.value[5] \in
                  1..Len(ClientAt(c.value[2], c.value[3]).projects[c.value[4]].members)

C15_TreeUntouched == []WrittenInListOrder /\ [][divisions' = divisions]_vars

\* A Partner has been placed whose two Clients are in different columns, the
\* later one with two Projects, one of them with two People.
C15_Witness ==
    /\ pc = "idle"
    /\ \E c1 \in cells, c2 \in cells :
          /\ c1.value[1] = "client" /\ c2.value[1] = "client"
          /\ c1.value[2] = c2.value[2] /\ c1.value[3] < c2.value[3]
          /\ CellAbsCol(c1) < CellAbsCol(c2)
    /\ \E p \in cells : p.value[1] = "project" /\ p.value[4] = 2
    /\ \E n \in cells : n.value[1] = "name" /\ n.value[5] = 2

(***************************************************************************)
(* C16.  Termination: for every tree and every positive columns_per_page   *)
(* and max_rows_per_column, also a max_rows_per_column below a header's    *)
(* overhead or a Client's height, every call of write_partner_clients      *)
(* returns, the whole run ends, and placing one Partner makes at most      *)
(* 1 + 2 * (number of its Clients) column advances.                        *)
(***************************************************************************)
\* Column advances since write_partner_clients was last called: every advance
\* moves the cursor on by one column of the flow.
AdvancesOfCall == AbsCol(flow) - AbsCol(entry)

AdvanceBound ==
    /\ (pc # "idle") => AdvancesOfCall <= 1 + 2 * Len(Current.clients)
    /\ (pc = "idle" /\ pos > 1) =>
          AdvancesOfCall <= 1 + 2 * Len(PartnerAt(divisions, pos - 1).clients)

\* generate's loop over the Partners is over.
Returned == pc = "idle" /\ pos > Len(Order)

\* The calls write_partner_clients makes at most for a Partner of n Clients:
\* ensure_fit, _begin_segment and the final _end_segment, and per Client the
\* fit test, _end_segment, next_column, ensure_fit, _begin_segment and the body.
CallsFor(n) == 3 + 6 * n

\* The calls still to come within the Client iteration the run stands in.
WithinClient ==
    CASE pc = "close" -> 5
      [] pc = "advance" -> 4
      [] pc = "ensure" -> 3
      [] pc = "begin" -> 2
      [] pc = "write" -> 1
      [] OTHER -> 0

\* An upper bound of the calls still to come in the whole run.
Remaining ==
    LET later == SumSeq([k \in 1..Len(Order) |->
                           IF k > pos THEN CallsFor(Len(PartnerAt(divisions, k).clients))
                           ELSE 0])
        n == Len(Current.clients)
    IN IF pos > Len(Order) THEN 0
       ELSE later +
            (CASE pc = "idle" -> CallsFor(n)
               [] pc = "begin_first" -> CallsFor(n) - 1
               [] pc = "loop" -> 1 + 6 * (n - ci + 1)
               [] OTHER -> 1 + 6 * (n - ci) + WithinClient)

\* The guard of some step holds, and the Partner and Client it reads exist.
CanStep ==
    \/ pc = "idle" /\ pos <= Len(Order)
    \/ pc = "begin_first" /\ pos <= Len(Order)
    \/ pc = "loop" /\ pos <= Len(Order) /\ ci \in 1..(Len(Current.clients) + 1)
    \/ /\ pc \in {"close", "advance", "ensure", "begin", "write"}
       /\ pos <= Len(Order) /\ ci \in 1..Len(Current.clients)

\* Every state but the final one has a next step, and every step brings the
\* bound of the calls to come down: no run goes on for ever.
C16_Terminates ==
    /\ []AdvanceBound
    /\ [](Remaining >= 0 /\ (~Returned => CanStep))
    /\ [][Remaining' < Remaining]_vars

\* A Partner with a Client has been placed with the most advances possible,
\* its units being taller than a column, and the run is over.
C16_Witness ==
    /\ Returned /\ pos > 1
    /\ Len(PartnerAt(divisions, pos - 1).clients) >= 1
    /\ AdvancesOfCall = 1 + 2 * Len(PartnerAt(divisions, pos - 1).clients)
    /\ flow.max_rows < PARTNER_HEADER_ROWS

(***************************************************************************)
(* C17.  Single pass: over the whole run the rectangles (rows by columns)  *)
(* of the segments are pairwise disjoint and lie below the title rows, so  *)
(* no grid cell is given a value twice and no cell its border twice.       *)
(***************************************************************************)
\* Rows 1..HEADER_ROWS hold the title generate writes (row 2).
TitleRows == 1..HEADER_ROWS

\* The rectangles of s1 and s2 have a grid cell in common.
Overlap(s1, s2) ==
    /\ s1.row_start <= s2.row_end /\ s2.row_start <= s1.row_end
    /\ s1.col_start <= s2.col_end /\ s2.col_start <= s1.col_end

\* The rectangles handed to _apply_partner_borders, by number of the call.
CallRect(i) ==
    [row_start |-> border_calls[i].row_start, row_end |-> border_calls[i].row_end,
     col_start |-> border_calls[i].col_start, col_end |-> border_calls[i].col_end]

C17_SegmentsDisjoint ==
    /\ \A i \in 1..Len(border_calls), j \in 1..Len(border_calls) :
          i # j => ~Overlap(CallRect(i), CallRect(j))
    /\ \A i \in 1..Len(border_calls), s \in OpenSegments :
          ~Overlap(CallRect(i), s)
    /\ \A s \in Segments : s.row_start \notin TitleRows /\ s.row_start > HEADER_ROWS
    /\ \A c1 \in cells, c2 \in cells :
          (c1.row = c2.row /\ c1.column = c2.column) => c1.value = c2.value
    /\ \A c \in cells : c.row \notin TitleRows

\* Segments have been closed in two columns of one page and on the next page.
C17_Witness ==
    \E i \in 1..Len(border_calls), j \in 1..Len(border_calls),
       k \in 1..Len(border_calls) :
       /\ border_calls[i].page = 0 /\ border_calls[i].visual_col = 0
       /\ border_calls[j].page = 0 /\ border_calls[j].visual_col = 1
       /\ border_calls[k].page = 1 /\ border_calls[k].visual_col = 0
       /\ border_calls[i].row_end > border_calls[j].row_end

(***************************************************************************)
(* process (processor.py): the roster is a sequence of rows, each with the *)
(* Partner's display name, the Client's display name, the Project name and *)
(* the Member made of the row.  The tree it returns carries the names.     *)
(***************************************************************************)
MaxRoster == 3

\* config.SALES_PARTNER_MAP, in key order: <<key, the Partners listed under it>>.
\* "P2" is listed under two keys, as some Partners of the configuration are;
\* "P4" is listed under none.
SALES_PARTNER_MAP == << <<"A", {"P1", "P2"}>>, <<"B", {"P2", "P3"}>> >>

PartnerNames == {"P1", "P2", "P3", "P4"}
ClientNames == {"c1", "c2"}
ProjectNames == {"j1", "j2"}

\* config.GRADE_ORDER, for the grades of the Members modelled
GRADE_ORDER == <<"GM", "">>

\* The rosters of at most MaxRoster rows.
Rosters ==
    UNION {[1..n -> [partner : PartnerNames, client : ClientNames,
                     project : ProjectNames, member : {OwnMember, BpMember}]] :
           n \in 0..MaxRoster}

\* division_lookup[name], "" where no key lists the name; a later key overwrites
\* an earlier one (lines 176-180)
division_lookup(name) ==
    LET listing == {i \in 1..Len(SALES_PARTNER_MAP) : name \in SALES_PARTNER_MAP[i][2]}
    IN IF listing = {} THEN "" ELSE SALES_PARTNER_MAP[MaxOf(listing)][1]

\* The group keys of groupby(..., sort=False): each key once, in the order of
\* its first row.
RECURSIVE FirstAppearance(_)
FirstAppearance(keys) ==
    IF keys = <<>> THEN <<>>
    ELSE LET front == FirstAppearance(SubSeq(keys, 1, Len(keys) - 1))
             last == keys[Len(keys)]
         IN IF \E i \in 1..Len(front) : front[i] = last
            THEN front ELSE Append(front, last)

\* list.sort(key=..., reverse=True) on <<key, item>> pairs: stable, so an item
\* goes behind every item whose key is not smaller.
InsertDescending(sorted, x) ==
    LET k == Cardinality({i \in 1..Len(sorted) : sorted[i][1] >= x[1]})
    IN SubSeq(sorted, 1, k) \o <<x>> \o SubSeq(sorted, k + 1, Len(sorted))

\* Faulty variant of SortDescending: the pairs are left in the order they come in.
SortDescendingNot(pairs) == pairs

RECURSIVE SortDescending(_)
SortDescending(pairs) ==
    IF pairs = <<>> THEN <<>>
    ELSE InsertDescending(SortDescending(SubSeq(pairs, 1, Len(pairs) - 1)),
                          pairs[Len(pairs)])

\* The items of sorted pairs.
Items(pairs) == [i \in 1..Len(pairs) |-> pairs[i][2]]

\* _grade_sort_key
_grade_sort_key(grade) ==
    IF \E i \in 1..Len(GRADE_ORDER) : GRADE_ORDER[i] = grade
    THEN (CHOOSE i \in 1..Len(GRADE_ORDER) : GRADE_ORDER[i] = grade) - 1
    ELSE Len(GRADE_ORDER)

\* _sort_members: own staff by grade rank (an ascending stable sort), then BP
\* staff; no Member modelled is an executive.
_sort_members(members) ==
    LET IsOwn(mb) == ~mb.is_bp
        IsBp(mb) == mb.is_bp
        own == SelectSeq(members, IsOwn)
        bp == SelectSeq(members, IsBp)
    IN Items(SortDescending([i \in 1..Len(own) |->
                                <<0 - _grade_sort_key(own[i].grade), own[i]>>])) \o bp

\* _build_clients: group by Client, then by Project, in first-appearance
\* order; sort the Projects, then the Clients, by people count, descending.
_build_clients(client_df) ==
    LET client_names == FirstAppearance([i \in 1..Len(client_df) |-> client_df[i].client])
        ClientOf(cn) ==
            LET OfClient(row) == row.client = cn
                cdf == SelectSeq(client_df, OfClient)
                proj_names == FirstAppearance([i \in 1..Len(cdf) |-> cdf[i].project])
                ProjectOf(pn) ==
                    LET OfProject(row) == row.project = pn
                        pdf == SelectSeq(cdf, OfProject)
                    IN [name |-> pn,
                        members |-> _sort_members([i \in 1..Len(pdf) |-> pdf[i].member])]
                projects == [j \in 1..Len(proj_names) |-> ProjectOf(proj_names[j])]
            IN [name |-> cn,
                projects |-> Items(SortDescending(
                                [j \in 1..Len(projects) |->
                                    <<ProjectCount(projects[j]), projects[j]>>]))]
        clients == [i \in 1..Len(client_names) |-> ClientOf(client_names[i])]
    IN Items(SortDescending([i \in 1..Len(clients) |->
                                <<ClientCount(clients[i]), clients[i]>>]))

\* process: group by (division key, Partner) in first-appearance order, sort
\* each Division's Partners by people count, descending, and return the
\* Divisions by (key not configured, place of the key in the configuration).
process(df) ==
    LET group_keys == FirstAppearance([i \in 1..Len(df) |->
                         <<division_lookup(df[i].partner), df[i].partner>>])
        div_keys == FirstAppearance([g \in 1..Len(group_keys) |-> group_keys[g][1]])
        PartnerOf(gk) ==
            LET OfPartner(row) == row.partner = gk[2]
            IN [display_name |-> gk[2],
                clients |-> _build_clients(SelectSeq(df, OfPartner))]
        DivisionOf(k) ==
            LET OfKey(gk) == gk[1] = k
                mine == SelectSeq(group_keys, OfKey)
                partners == [g \in 1..Len(mine) |-> PartnerOf(mine[g])]
            IN [key |-> k,
                partners |-> Items(SortDescending(
                                [g \in 1..Len(partners) |->
                                    <<PartnerCount(partners[g]), partners[g]>>]))]
        map_keys == [i \in 1..Len(SALES_PARTNER_MAP) |-> SALES_PARTNER_MAP[i][1]]
        Rank(k) ==
            IF \E i \in 1..Len(map_keys) : map_keys[i] = k
            THEN (CHOOSE i \in 1..Len(map_keys) : map_keys[i] = k) - 1
            ELSE Len(map_keys)
        ordered == Items(SortDescending([i \in 1..Len(div_keys) |->
                                            <<0 - Rank(div_keys[i]), div_keys[i]>>]))
    IN [i \in 1..Len(ordered) |-> DivisionOf(ordered[i])]

\* A run of process on a roster; the layout's variables stay as constructed.
InitProcess ==
    /\ roster \in Rosters
    /\ built = <<>>
    /\ pc = "process"
    /\ divisions = <<>>
    /\ flow = FlowLayoutInit(1, 1)
    /\ seg = EmptySeg
    /\ cells = {}
    /\ merges = {}
    /\ border_calls = <<>>
    /\ pos = 1
    /\ ci = 1
    /\ entry = flow
    /\ page_hi = flow.row
    /\ first = <<>>

Process ==
    /\ pc = "process"
    /\ built' = process(roster)
    /\ pc' = "processed"
    /\ UNCHANGED <<divisions, flow, seg, cells, merges, border_calls, pos, ci,
                   entry, page_hi, roster, first>>

NextProcess == Process

SpecProcess == InitProcess /\ [][NextProcess]_vars

(***************************************************************************)
(* C18.  Order of what process returns: the Divisions in the key order of  *)
(* SALES_PARTNER_MAP, the unassigned one (key "") after all configured     *)
(* ones; the Partners of a Division, the Clients of a Partner and the      *)
(* Projects of a Client in non-increasing order of people count, equal     *)
(* counts in the order of first appearance in the roster.                  *)
(***************************************************************************)
\* The rows of the roster whose fields given in `of` have these values.
RowsOf(of) ==
    {i \in 1..Len(roster) : \A f \in DOMAIN of : roster[i][f] = of[f]}

\* a goes before b: more rows, or as many and earlier in the roster.
GoesBefore(a, b) ==
    \/ Cardinality(RowsOf(a)) > Cardinality(RowsOf(b))
    \/ /\ Cardinality(RowsOf(a)) = Cardinality(RowsOf(b))
       /\ MinOf(RowsOf(a)) < MinOf(RowsOf(b))

\* The place of a Division key in the configured priority: the keys of the
\* map in their order, then the empty key.
KeyPlace(k) ==
    CHOOSE i \in 1..3 : <<"A", "B", "">>[i] = k

\* The key process files a Partner under: the last key that lists it.
KeyOfPartner(name) ==
    CASE name = "P1" -> "A"
      [] name \in {"P2", "P3"} -> "B"
      [] OTHER -> ""

FreshFlowLayoutSharedList(self) ==
    [FlowLayoutInit(self.cols_per_page, self.max_rows)
        EXCEPT !.page_break_rows = self.page_break_rows]

\* FlowLayout(ws) under the configuration self was made with (lines 79-91, 506)
FreshFlowLayout(self) == FlowLayoutInit(self.cols_per_page, self.max_rows)

\* generate is past its loop (lines 508-510).
Finished == pc = "idle" /\ pos > Len(Order)

\* What a run leaves in the worksheet and hands to _setup_print (lines 515-516):
\* the cells with their values, the merged ranges, the Border of every cell of
\* every segment, the page-break rows and the last row of the print area.
Produced ==
    [cells |-> cells,
     merges |-> merges,
     borders |-> [i \in 1..Len(border_calls) |-> _apply_partner_borders(border_calls[i])],
     page_break_rows |-> flow.page_break_rows,
     last_row |-> Max(flow.page_max_row, flow.row)]

RunAgain ==
    /\ Finished
    /\ first = <<>>
    /\ first' = <<Produced>>
    /\ flow' = FreshFlowLayout(flow)
    /\ seg' = EmptySeg
    /\ cells' = {}
    /\ merges' = {}
    /\ border_calls' = <<>>
    /\ pos' = 1
    /\ ci' = 1
    /\ entry' = flow'
    /\ page_hi' = flow'.row
    /\ UNCHANGED <<divisions, pc, roster, built>>

NextTwice == Next \/ RunAgain

SpecTwice == Init /\ [][NextTwice]_vars

EveryClientFits ==
    /\ flow.max_rows >= 2
    /\ \A pid \in 1..Len(Order) :
          \A cid \in 1..Len(PartnerAt(divisions, pid).clients) :
             ClientRowHeight(ClientAt(pid, cid)) + PARTNER_HEADER_ROWS <= flow.max_rows

RowsWithinPage ==
    \A c \in cells :
       /\ PageStart(c.page) <= c.row
       /\ c.row <= PageStart(c.page) + flow.max_rows - 1

\* The row and the column (over all pages) client cid of Partner pid begins at.
FirstRowOf(pid, cid) == MinOf({c.row : c \in CellsOfClient(pid, cid)})

ColumnOf(pid, cid) == CellAbsCol(CHOOSE c \in CellsOfClient(pid, cid) : TRUE)

\* The Client after the first of its Partner was checked (line 225) with the
\* cursor on the row under the Client before it.
FitsUnder(pid, cid) ==
    LET before == CHOOSE c \in CellsOfClient(pid, cid - 1) : TRUE
    IN FirstRowOf(pid, cid - 1) + ClientRowHeight(ClientAt(pid, cid - 1))
          + ClientRowHeight(ClientAt(pid, cid)) - 1
       <= PageStart(before.page) + flow.max_rows - 1

\* The Partner write_partner_clients was last called for.
EnteredPartner == IF pc = "idle" THEN pos - 1 ELSE pos

OneAdvancePerClient ==
    /\ \A pl \in PlacedClients :
          pl[2] > 1 =>
             ColumnOf(pl[1], pl[2]) =
                ColumnOf(pl[1], pl[2] - 1) + (IF FitsUnder(pl[1], pl[2]) THEN 0 ELSE 1)
    /\ <<EnteredPartner, 1>> \in PlacedClients =>
          ColumnOf(EnteredPartner, 1) =
             AbsCol(entry)
               + (IF can_fit(entry, PARTNER_HEADER_ROWS
                                      + ClientRowHeight(ClientAt(EnteredPartner, 1)))
                  THEN 0 ELSE 1)

C20_FittingClients == EveryClientFits => (RowsWithinPage /\ OneAdvancePerClient)

\* Every unit fits an empty column; the run is over; a Client that did not fit
\* under the one before it stands one column further, on the next page, and
\* the first Client of the last Partner did not fit where the cursor stood.
C20_Witness ==
    /\ EveryClientFits
    /\ Finished
    /\ \E pl \in PlacedClients :
          /\ pl[2] > 1
          /\ ~FitsUnder(pl[1], pl[2])
          /\ (CHOOSE c \in CellsOfClient(pl[1], pl[2]) : TRUE).page = 1
    /\ <<EnteredPartner, 1>> \in PlacedClients
    /\ ColumnOf(EnteredPartner, 1) = AbsCol(entry) + 1

(***************************************************************************)
(* C21.  The list of page-break rows is strictly increasing and only ever  *)
(* grows at its end; every row written on the page a break row b closes is *)
(* above b, and every row written on a later page is at b + HEADER_ROWS    *)
(* (b + 2) or below, whatever the tree, Clients higher than a column       *)
(* included.                                                               *)
(***************************************************************************)
\* The break rows are in strictly increasing order.
BreaksIncrease ==
    \A k \in 2..Len(flow.page_break_rows) :
       flow.page_break_rows[k - 1] < flow.page_break_rows[k]

\* Break number k closes page k - 1: it lies under that page, above the later ones.
BreaksSeparate ==
    \A k \in 1..Len(flow.page_break_rows) :
       \A c \in cells :
          /\ c.page = k - 1 => c.row < flow.page_break_rows[k]
          /\ c.page >= k => c.row >= flow.page_break_rows[k] + HEADER_ROWS

\* page_break_rows.append is the only change the list sees.
BreaksAppended ==
    \/ flow'.page_break_rows = flow.page_break_rows
    \/ /\ Len(flow'.page_break_rows) = Len(flow.page_break_rows) + 1
       /\ SubSeq(flow'.page_break_rows, 1, Len(flow.page_break_rows))
             = flow.page_break_rows

C21_PageBreaks ==
    /\ [](BreaksIncrease /\ BreaksSeparate)
    /\ [][BreaksAppended]_vars

\* Two pages have been closed and rows are written on three pages, a Client
\* higher than a column among them.
C21_Witness ==
    /\ Len(flow.page_break_rows) = 2
    /\ \A k \in 0..2 : \E c \in cells : c.page = k
    /\ \E pl \in PlacedClients :
          ClientRowHeight(ClientAt(pl[1], pl[2])) > flow.max_rows

(***************************************************************************)
(* C22.  Placing a Client moves the cursor down by exactly its row_height: *)
(* 2 header rows and, for every Project, 1 name row and a row per person;  *)
(* the rows written for it are exactly the rows from the cursor's row on,  *)
(* as many as the height can_fit was asked about.  This holds for a Client *)
(* without Projects and for Projects without people too.                   *)
(***************************************************************************)
\* 2 header rows, and per Project 1 name row and one row per person.
RowsCounted(client) ==
    2 + SumSeq([j \in 1..Len(client.projects) |->
                   1 + Len(client.projects[j].members)])

\* The rows given a value for client cid of Partner pid.
RowsOfClient(pid, cid) == {c.row : c \in CellsOfClient(pid, cid)}

\* Every placed Client holds as many rows as its row_height.
HeightIsRowsWritten ==
    \A pl \in PlacedClients :
       /\ Cardinality(RowsOfClient(pl[1], pl[2])) = ClientRowHeight(ClientAt(pl[1], pl[2]))
       /\ ClientRowHeight(ClientAt(pl[1], pl[2])) = RowsCounted(ClientAt(pl[1], pl[2]))

\* The step that writes a Client (lines 231-322).
PlacingStep == pc = "write" /\ pc' = "loop"

RowAdvancedByHeight ==
    PlacingStep =>
       /\ flow'.row = flow.row + ClientRowHeight(Current.clients[ci])
       /\ {c.row : c \in cells' \ cells} = flow.row..(flow'.row - 1)
       /\ flow'.page = flow.page /\ flow'.visual_col = flow.visual_col

C22_RowAdvance == []HeightIsRowsWritten /\ [][RowAdvancedByHeight]_vars

\* A Client without Projects has been placed, and one with a Project without
\* people and a Project with a person.
C22_Witness ==
    /\ \E pl \in PlacedClients : Len(ClientAt(pl[1], pl[2]).projects) = 0
    /\ \E pl \in PlacedClients :
          LET client == ClientAt(pl[1], pl[2])
          IN /\ \E j \in 1..Len(client.projects) : Len(client.projects[j].members) = 0
             /\ \E j \in 1..Len(client.projects) : Len(client.projects[j].members) >= 1

(***************************************************************************)
(* C23.  Well-formed cursor: after every operation on the cursor, in any   *)
(* order, 0 <= visual_col < columns_per_page, the page index is the length *)
(* of the page-break list, row >= page_start_row, and page_start_row is    *)
(* the initial content-start row on page 0 and the last page-break row + 2 *)
(* (HEADER_ROWS) on every later page.                                      *)
(***************************************************************************)
CursorWellFormed(self) ==
    /\ 0 <= self.visual_col /\ self.visual_col < self.cols_per_page
    /\ self.page = Len(self.page_break_rows)
    /\ self.row >= self.page_start_row
    /\ self.page_start_row =
          IF self.page = 0 THEN CONTENT_START_ROW
          ELSE self.page_break_rows[Len(self.page_break_rows)] + HEADER_ROWS

C23_CursorInvariant ==
    /\ CursorWellFormed(flow)
    /\ \A h \in 0..flow.max_rows :
          /\ CursorWellFormed(ensure_fit(flow, h))
          /\ CursorWellFormed(next_column(flow))

\* The cursor stands below the content-start row in the last of the two
\* columns of the second page, Clients having been written on both pages.
C23_Witness ==
    /\ flow.page = 1
    /\ flow.cols_per_page = 2
    /\ flow.visual_col = 1
    /\ flow.row > flow.page_start_row
    /\ \A k \in 0..1 : \E c \in cells : c.page = k /\ c.value[1] = "client"

(***************************************************************************)
(* C24.  For every Partner with a Client, in every configuration, every    *)
(* closed segment holds at least one complete Client block under the       *)
(* Partner header, and of two consecutive segments of one Partner the      *)
(* later is in the visual column next to the earlier: no column is left    *)
(* empty between them.  Stated for the trees process builds; the code      *)
(* frames a header-only segment and leaves a column empty when a unit is   *)
(* higher than a column.                                                   *)
(***************************************************************************)
\* The Partner whose header stands at the top of the segment of call i.
PartnerOfCall(i) ==
    LET a == border_calls[i]
        head == CHOOSE c \in cells :
                   /\ c.value[1] = "partner"
                   /\ c.row = a.partner_row
                   /\ c.page = a.page /\ c.visual_col = a.visual_col
    IN head.value[2]

\* The rows between which the Client blocks of the segment of call i lie.
HoldsClient(i, pid, cid) ==
    LET a == border_calls[i]
    IN /\ <<pid, cid>> \in PlacedClients
       /\ \A c \in CellsOfClient(pid, cid) :
             /\ c.page = a.page /\ c.visual_col = a.visual_col
             /\ a.row_start + PARTNER_HEADER_ROWS <= c.row /\ c.row <= a.row_end

\* The column, counted over all pages, of the segment of call i.
ColumnOfCall(i) ==
    border_calls[i].page * flow.cols_per_page + border_calls[i].visual_col

C24_SegmentsHoldClient ==
    BuiltByProcess(divisions) =>
      \A i \in 1..Len(border_calls) :
         LET pid == PartnerOfCall(i)
         IN Len(PartnerAt(divisions, pid).clients) >= 1 =>
               /\ \E cid \in 1..Len(PartnerAt(divisions, pid).clients) :
                     HoldsClient(i, pid, cid)
               /\ (i > 1 /\ PartnerOfCall(i - 1) = pid) =>
                     ColumnOfCall(i) = ColumnOfCall(i - 1) + 1

(***************************************************************************)
(* C25.  Extent: when generate has placed every Partner, last_row =        *)
(* max(page_max_row, row) is at or below every row written, on any page    *)
(* and in any column; every written grid column is at most                 *)
(* LEFT_MARGIN + columns_per_page * STRIDE, the last column of the print   *)
(* area; the visual columns of a page take grid-column ranges that do not  *)
(* overlap and begin STRIDE apart.                                         *)
(***************************************************************************)
\* Faulty variant of last_row: the rows of the columns left earlier are forgotten.
last_row_cursor(self) == self.row

\* last_row = max(flow.page_max_row, flow.row) (line 515)
last_row(self) == Max(self.page_max_row, self.row)

\* last_col_num of _setup_print (line 471)
last_col_num(self) == LEFT_MARGIN + self.cols_per_page * STRIDE

\* The grid columns visual column v takes.
ColumnRange(v) ==
    (v * STRIDE + 1 + LEFT_MARGIN)..(v * STRIDE + LEFT_MARGIN + EXCEL_COLS_PER_VISUAL)

RowsCovered ==
    /\ \A c \in cells : c.row <= last_row(flow)
    /\ \A mg \in merges : mg.end_row <= last_row(flow)
    /\ \A i \in 1..Len(border_calls) : border_calls[i].row_end <= last_row(flow)

ColumnsCovered ==
    /\ \A c \in cells :
          /\ c.column \in ColumnRange(c.visual_col)
          /\ c.column <= last_col_num(flow)
    /\ \A mg \in merges : mg.end_column <= last_col_num(flow)
    /\ \A i \in 1..Len(border_calls) :
          /\ border_calls[i].col_start = MinOf(ColumnRange(border_calls[i].visual_col))
          /\ border_calls[i].col_end = MaxOf(ColumnRange(border_calls[i].visual_col))
          /\ border_calls[i].col_end <= last_col_num(flow)

ColumnsApart ==
    \A v \in 0..(flow.cols_per_page - 1), w \in 0..(flow.cols_per_page - 1) :
       v < w =>
          /\ ColumnRange(v) \cap ColumnRange(w) = {}
          /\ MinOf(ColumnRange(w)) - MinOf(ColumnRange(v)) = (w - v) * STRIDE

C25_ExtentCoversContent ==
    /\ Finished => RowsCovered
    /\ ColumnsCovered
    /\ ColumnsApart

\* The run is over on a page of two columns, both written, the first further
\* down than the cursor stands in the second.
C25_Witness ==
    /\ Finished
    /\ flow.cols_per_page = 2
    /\ flow.visual_col = 1
    /\ \E c \in cells, d \in cells :
          /\ c.page = flow.page /\ c.visual_col = 0
          /\ d.page = flow.page /\ d.visual_col = 1
          /\ c.row >= flow.row

====
